---- MODULE Spec2Model ----
(***************************************************************************)
(* cla-proxy: a FastAPI application that forwards /v1/chat/completions and *)
(* /v1/models to a backend through a per-request httpx.Client, behind a    *)
(* timeout middleware (asyncio.wait_for) and four status-keyed exception   *)
(* handlers.  Configuration is built once in the lifespan hook.            *)
(*                                                                         *)
(* Time is a discrete clock.  The event loop is single threaded: a request *)
(* whose handler is inside the synchronous httpx call occupies the loop.   *)
(***************************************************************************)
EXTENDS Integers, Sequences, FiniteSets, TLC

VARIABLES
    boot,       \* lifespan: "starting", "started" or "failed"
    levelIn,    \* the [logging] level string of config.toml, as read
    level,      \* Settings().logging.level once constructed
    timeout,    \* Settings().backend.timeout (seconds)
    now,        \* the clock
    guard,      \* per request: the wait_for race of timeout_middleware
    route,      \* per request: which endpoint it addresses
    data,       \* per request: the ChatCompletionRequest (chat only)
    entry,      \* per request: the time wait_for started
    pc,         \* per request: position of the call_next(request) task
    call,       \* per request: the synchronous backend call
    clients,    \* every httpx.Client constructed so far
    sent,       \* per request: the outbound HTTP requests issued
    raised,     \* per request: the HTTPException raised in the pipeline
    result,     \* per request: what call_next produced
    delivered   \* per request: what the middleware handed to the caller

vars == <<boot, levelIn, level, timeout, now, guard, route, data, entry, pc,
          call, clients, sent, raised, result, delivered>>

cfgVars == <<boot, levelIn, level, timeout>>

(***************************************************************************)
(* Bounds of the model.                                                    *)
(***************************************************************************)
MaxTime == 4

MaxTimeout == 2

MaxPhases == 2

Requests == {1, 2}

(***************************************************************************)
(* Strings of the log level, as sequences of characters.                   *)
(***************************************************************************)
LowerChars == <<"a", "b", "c", "d", "e", "f", "g", "i", "l", "n", "o", "r",
                "s", "t", "u", "w">>

UpperChars == <<"A", "B", "C", "D", "E", "F", "G", "I", "L", "N", "O", "R",
                "S", "T", "U", "W">>

\* str.upper() on one character: letters map to their capital, the rest stay.
UpperChar(c) ==
    IF \E k \in DOMAIN LowerChars : LowerChars[k] = c
    THEN UpperChars[CHOOSE k \in DOMAIN LowerChars : LowerChars[k] = c]
    ELSE c

\* str.upper()
Upper(s) == [i \in DOMAIN s |-> UpperChar(s[i])]

allowed_levels ==
    { <<"C", "R", "I", "T", "I", "C", "A", "L">>,
      <<"E", "R", "R", "O", "R">>,
      <<"W", "A", "R", "N", "I", "N", "G">>,
      <<"I", "N", "F", "O">>,
      <<"D", "E", "B", "U", "G">>,
      <<"N", "O", "T", "S", "E", "T">> }

ValueError == <<"!">>

\* Logging.normalize_level without the upper() call.
normalize_level_noupper(v) ==
    IF v \notin allowed_levels THEN ValueError ELSE v

\* Logging.normalize_level: the stored level, or ValueError.
normalize_level(v) ==
    LET lvl == Upper(v)
    IN  IF lvl \notin allowed_levels THEN ValueError ELSE lvl

\* The level Logging declares when config.toml gives none.
DefaultLevel == <<"I", "N", "F", "O">>

\* Every spelling of s that differs from it in letter case only.
CaseVariants(s) ==
    { [i \in DOMAIN s |-> IF m[i] THEN s[i]
                          ELSE LowerChars[CHOOSE k \in DOMAIN UpperChars :
                                                  UpperChars[k] = s[i]]] :
        m \in [DOMAIN s -> BOOLEAN] }

Spellings == UNION { CaseVariants(s) : s \in allowed_levels }

\* The level strings configuration is tried with: every spelling of every
\* allowed level, and strings near them that are not levels.
LevelInputs ==
    Spellings
    \cup { Append(s, c) : s \in Spellings, c \in {" ", "s"} }
    \cup { SubSeq(s, 1, Len(s) - 1) : s \in Spellings }
    \cup { <<>>, <<"W", "A", "R", "N">>, <<"t", "r", "a", "c", "e">>,
           <<"1", "N", "F", "O">>, <<"I", "N", " ", "F", "O">> }

(***************************************************************************)
(* JSON.  A value is an object (a Python dict / pydantic model's fields)   *)
(* or a string; a text is the serialisation of a value, or bytes that are  *)
(* no JSON at all.                                                         *)
(***************************************************************************)
Obj(f) == [t |-> "obj", f |-> f]

Str(txt) == [t |-> "str", s |-> txt]

\* json.dumps / model_dump_json: the text of a value.
Encode(v) == [enc |-> v]

NotJson == [raw |-> "<html>"]

NoBody == [raw |-> ""]

IsJson(txt) == "enc" \in DOMAIN txt

\* Response.json(): the value a text denotes (the caller checks IsJson).
Decode(txt) == txt.enc

\* The ChatCompletionRequest values a client posts.
ChatRequests ==
    { [model |-> "m1", messages |-> "hi"],
      [model |-> "m2", messages |-> "yo"] }

NoData == [none |-> TRUE]

\* Objects a backend may answer with, besides echoing what it received.
ReplyPayloads ==
    { [id |-> "c1", choices |-> "ans"],
      [object |-> "list", data |-> "m1"] }

BackendStatuses == {200, 503}

ChatFields == {"id", "choices", "model", "messages"}

ModelsFields == {"object", "data"}

\* Structural validation by the response schema of a route.
SchemaAccepts(rt, f) ==
    /\ DOMAIN f # {}
    /\ DOMAIN f \subseteq (IF rt = "chat" THEN ChatFields ELSE ModelsFields)

(***************************************************************************)
(* Outcomes of the request pipeline.                                       *)
(***************************************************************************)
Response(status, body) == [kind |-> "response", status |-> status, body |-> body]

Raise(exc) == [kind |-> "raise", exc |-> exc]

NoResult == [kind |-> "none"]

NoRaise == [status |-> 0, detail |-> ""]

err_msg == "There was a problem while generating an answer. Please try again."

HTTP_504_GATEWAY_TIMEOUT == 504

\* The JSONResponse timeout_middleware builds when wait_for times out.
Fallback == Response(HTTP_504_GATEWAY_TIMEOUT, Obj([data |-> [text |-> err_msg]]))

\* The statuses register_exception_handlers installs a handler for.
HandledStatuses == {403, 408, 503, 504}

\* Statuses an HTTPException raised in the pipeline may carry.
ErrStatuses == {401, 403, 408, 500, 502, 503, 504}

Details == {"denied", "later"}

\* cla_exception_handler(_, exc)
cla_exception_handler(status, detail) ==
    Response(status, Obj([errors |-> <<[status |-> status, detail |-> detail]>>]))

\* FastAPI's own handler for HTTPException: {"detail": exc.detail}.
default_exception_handler(status, detail) ==
    Response(status, Obj([detail |-> detail]))

\* The handler lookup with only 403 registered.
handle_http_exception_403only(status, detail) ==
    IF status = 403
    THEN cla_exception_handler(status, detail)
    ELSE default_exception_handler(status, detail)

\* The handler lookup of the application: by status code first, then the
\* default for the exception class.
handle_http_exception(status, detail) ==
    IF status \in HandledStatuses
    THEN cla_exception_handler(status, detail)
    ELSE default_exception_handler(status, detail)

\* The status the caller sees: an exception that leaves the middleware
\* becomes the server's 500.
CallerStatus(out) == IF out.kind = "raise" THEN 500 ELSE out.status

(***************************************************************************)
(* The endpoints.                                                          *)
(***************************************************************************)
Routes == {"chat", "models"}

\* The outbound request of a route: client.post(endpoint,
\* json=data.model_dump_json()) hands httpx a str, which it serialises as a
\* JSON string; client.get(endpoint) sends no body.
outbound(rt, d, cid) ==
    IF rt = "chat"
    THEN [client |-> cid, method |-> "POST", url |-> "/chat/completions",
          body |-> Encode(Str(Encode(Obj(d))))]
    ELSE [client |-> cid, method |-> "GET", url |-> "/models", body |-> NoBody]

\* The bodies a backend may answer an outbound request with: an object, no
\* JSON at all, or the body it was sent.
ReplyTexts(req) ==
    { Encode(Obj(p)) : p \in ReplyPayloads }
    \cup {NotJson}
    \cup (IF req.method = "POST" THEN {req.body} ELSE {})

\* Every reply of the model: any status with any body.
Replies ==
    { [status |-> st, text |-> tx] :
        st \in BackendStatuses,
        tx \in UNION { ReplyTexts(outbound(rt, d, 0)) :
                          rt \in Routes, d \in ChatRequests } }

\* The replies two concurrent requests are answered with.
FewReplies ==
    { [status |-> 200, text |-> Encode(Obj(p))] : p \in ReplyPayloads }
    \cup { [status |-> 503, text |-> NotJson] }

\* return ChatCompletionResponse(**result.json()) /
\* return ModelsResponse(**result.json()): the reply's status is not read.
build_response(rt, reply) ==
    IF ~IsJson(reply.text) THEN Raise("JSONDecodeError")
    ELSE IF Decode(reply.text).t # "obj" THEN Raise("TypeError")
    ELSE IF ~SchemaAccepts(rt, Decode(reply.text).f) THEN Raise("ValidationError")
    ELSE Response(200, Obj(Decode(reply.text).f))

(***************************************************************************)
(* State of one request.                                                   *)
(***************************************************************************)
NoReply == [status |-> 0, text |-> NoBody]

\* state: "none", "inflight" or "returned"; took: seconds spent in the call;
\* phase: seconds since the backend last sent anything; phases: how many
\* times it has; reply: what it answered.
NoCall == [state |-> "none", took |-> 0, phase |-> 0, phases |-> 0,
           reply |-> NoReply]

\* The event loop runs tasks and timers only while no handler is inside the
\* synchronous client.post / client.get.
LoopFree == \A q \in Requests : pc[q] # "calling"

Deadline(r) == entry[r] + timeout

\* The wait_for timer with the loop running it on a thread of its own.
TimerMayFire_threaded(r) ==
    /\ guard[r] = "Running"
    /\ now >= Deadline(r)

\* The wait_for timer firing without regard to the configured timeout.
TimerMayFire_early(r) ==
    /\ guard[r] = "Running"
    /\ LoopFree

\* The wait_for timer firing although the awaited task has finished.
TimerMayFire_late(r) ==
    /\ guard[r] \in {"Running", "Completed"}
    /\ now >= Deadline(r)
    /\ LoopFree

\* asyncio.wait_for(call_next(request), timeout=...): the timer callback runs
\* when the loop is free, the timeout has elapsed and the race is undecided.
TimerMayFire(r) ==
    /\ guard[r] = "Running"
    /\ now >= Deadline(r)
    /\ LoopFree

\* Leaving the with block without closing the client when the call raised.
with_exit_leaky(cs, cid, byExc) ==
    IF byExc THEN cs ELSE [cs EXCEPT ![cid].open = FALSE]

\* Leaving `with httpx.Client(...) as client:`: the client is closed, by
\* return or by exception.
with_exit(cs, cid, byExc) == [cs EXCEPT ![cid].open = FALSE]

\* A handler that starts over when the call raised.
after_call_retry(out) == IF out.kind = "raise" THEN "start" ELSE "respond"

\* Where the handler goes after the backend call: to its return, or out by
\* the exception; the call is made once.
after_call(out) == "respond"

(***************************************************************************)
(* Start-up.                                                               *)
(***************************************************************************)
Idle ==
    /\ now = 0
    /\ guard = [r \in Requests |-> "Idle"]
    /\ route = [r \in Requests |-> "none"]
    /\ data = [r \in Requests |-> NoData]
    /\ entry = [r \in Requests |-> 0]
    /\ pc = [r \in Requests |-> "idle"]
    /\ call = [r \in Requests |-> NoCall]
    /\ clients = <<>>
    /\ sent = [r \in Requests |-> <<>>]
    /\ raised = [r \in Requests |-> NoRaise]
    /\ result = [r \in Requests |-> NoResult]
    /\ delivered = [r \in Requests |-> <<>>]

\* The application serving, configuration loaded with the default level.
Init ==
    /\ boot = "started"
    /\ levelIn = DefaultLevel
    /\ level = DefaultLevel
    /\ timeout \in 1..MaxTimeout
    /\ Idle

\* The process before lifespan runs, with some level in config.toml.
CfgInit ==
    /\ boot = "starting"
    /\ levelIn \in LevelInputs
    /\ level = <<>>
    /\ timeout = 1
    /\ Idle

\* lifespan: app.state.config = Settings(); a validation error ends start-up.
Lifespan ==
    /\ boot = "starting"
    /\ IF normalize_level(levelIn) = ValueError
       THEN boot' = "failed" /\ level' = level
       ELSE boot' = "started" /\ level' = normalize_level(levelIn)
    /\ UNCHANGED <<levelIn, timeout, now, guard, route, data, entry, pc, call,
                   clients, sent, raised, result, delivered>>

(***************************************************************************)
(* The request path.                                                       *)
(***************************************************************************)
\* A request enters timeout_middleware: wait_for starts the race.  Requests
\* are numbered in their order of arrival.
Arrive(r, rt, d) ==
    /\ boot = "started"
    /\ guard[r] = "Idle"
    /\ \A q \in Requests : q < r => guard[q] # "Idle"
    /\ LoopFree
    /\ guard' = [guard EXCEPT ![r] = "Running"]
    /\ route' = [route EXCEPT ![r] = rt]
    /\ data' = [data EXCEPT ![r] = d]
    /\ entry' = [entry EXCEPT ![r] = now]
    /\ pc' = [pc EXCEPT ![r] = "start"]
    /\ UNCHANGED <<cfgVars, now, call, clients, sent, raised, result, delivered>>

\* An HTTPException raised in the pipeline, answered by the handler found
\* for its status.
RaiseHTTP(r, status, detail) ==
    /\ guard[r] = "Running"
    /\ pc[r] = "start"
    /\ LoopFree
    /\ raised' = [raised EXCEPT ![r] = [status |-> status, detail |-> detail]]
    /\ result' = [result EXCEPT ![r] = handle_http_exception(status, detail)]
    /\ pc' = [pc EXCEPT ![r] = "respond"]
    /\ UNCHANGED <<cfgVars, now, guard, route, data, entry, call, clients,
                   sent, delivered>>

\* httpx.Client(cert=...) raises (certificate or key unreadable): no client.
BuildFails(r) ==
    /\ guard[r] = "Running"
    /\ pc[r] = "start"
    /\ LoopFree
    /\ result' = [result EXCEPT ![r] = Raise("CertError")]
    /\ pc' = [pc EXCEPT ![r] = "respond"]
    /\ UNCHANGED <<cfgVars, now, guard, route, data, entry, call, clients,
                   sent, raised, delivered>>

\* The handler builds its client and enters client.post / client.get.
StartCall(r) ==
    /\ guard[r] = "Running"
    /\ pc[r] = "start"
    /\ LoopFree
    /\ clients' = Append(clients, [owner |-> r, open |-> TRUE])
    /\ sent' = [sent EXCEPT ![r] =
                    Append(@, outbound(route[r], data[r], Len(clients) + 1))]
    /\ call' = [call EXCEPT ![r] =
                    [state |-> "inflight", took |-> 0, phase |-> 0,
                     phases |-> 1, reply |-> NoReply]]
    /\ pc' = [pc EXCEPT ![r] = "calling"]
    /\ UNCHANGED <<cfgVars, now, guard, route, data, entry, raised, result,
                   delivered>>

CurrentClient(r) == sent[r][Len(sent[r])].client

\* The call ends with `out`: the with block is left and the handler goes on.
EndCall(r, reply, out) ==
    /\ clients' = with_exit(clients, CurrentClient(r), out.kind = "raise")
    /\ call' = [call EXCEPT ![r].state = "returned", ![r].phase = 0,
                            ![r].phases = 0, ![r].reply = reply]
    /\ result' = [result EXCEPT ![r] = out]
    /\ pc' = [pc EXCEPT ![r] = after_call(out)]
    /\ UNCHANGED <<cfgVars, now, guard, route, data, entry, sent, raised,
                   delivered>>

\* The backend sends something: the per-operation httpx timeout starts anew.
Progress(r) ==
    /\ pc[r] = "calling"
    /\ call[r].phase > 0
    /\ call[r].phases < MaxPhases
    /\ call' = [call EXCEPT ![r].phase = 0, ![r].phases = @ + 1]
    /\ UNCHANGED <<cfgVars, now, guard, route, data, entry, pc, clients, sent,
                   raised, result, delivered>>

\* The backend's reply is complete; the handler decodes it and returns.
CallReturns(r, reply) ==
    /\ pc[r] = "calling"
    /\ reply.text \in ReplyTexts(sent[r][Len(sent[r])])
    /\ EndCall(r, reply, build_response(route[r], reply))

\* The connection fails (refused, reset, TLS).
CallFails(r) ==
    /\ pc[r] = "calling"
    /\ EndCall(r, NoReply, Raise("ConnectError"))

\* Nothing arrived for `timeout` seconds: httpx raises its own timeout.
HttpxTimeout(r) ==
    /\ pc[r] = "calling"
    /\ call[r].phase = timeout
    /\ EndCall(r, NoReply, Raise("ReadTimeout"))

\* wait_for returns what call_next produced.
Complete(r) ==
    /\ guard[r] = "Running"
    /\ pc[r] = "respond"
    /\ LoopFree
    /\ guard' = [guard EXCEPT ![r] = "Completed"]
    /\ pc' = [pc EXCEPT ![r] = "done"]
    /\ delivered' = [delivered EXCEPT ![r] =
                        Append(@, [at |-> now, out |-> result[r]])]
    /\ UNCHANGED <<cfgVars, now, route, data, entry, call, clients, sent,
                   raised, result>>

\* The timer wins: the task is cancelled and the fallback is returned.
TimerFires(r) ==
    /\ TimerMayFire(r)
    /\ guard' = [guard EXCEPT ![r] = "TimedOut"]
    /\ pc' = [pc EXCEPT ![r] = "cancelled"]
    /\ delivered' = [delivered EXCEPT ![r] =
                        Append(@, [at |-> now, out |-> Fallback])]
    /\ UNCHANGED <<cfgVars, now, route, data, entry, call, clients, sent,
                   raised, result>>

\* A second passes while a request is in flight.  Inside a backend call the clock runs until httpx's own
\* timeout is due; otherwise due timers and finished handlers go first.
Tick ==
    /\ now < MaxTime
    /\ \E r \in Requests : guard[r] = "Running"
    /\ IF LoopFree
       THEN \A r \in Requests :
                guard[r] = "Running" => now < Deadline(r) /\ pc[r] # "respond"
       ELSE \A r \in Requests : pc[r] = "calling" => call[r].phase < timeout
    /\ now' = now + 1
    /\ call' = [r \in Requests |->
                    IF pc[r] = "calling"
                    THEN [call[r] EXCEPT !.phase = @ + 1, !.took = @ + 1]
                    ELSE call[r]]
    /\ UNCHANGED <<cfgVars, guard, route, data, entry, pc, clients, sent,
                   raised, result, delivered>>

\* The steps that need no input.
Step(r) ==
    \/ BuildFails(r)
    \/ StartCall(r)
    \/ Progress(r)
    \/ CallFails(r)
    \/ HttpxTimeout(r)
    \/ Complete(r)
    \/ TimerFires(r)

\* One request at a time, with every input of the model.
Next ==
    \/ \E d \in ChatRequests : Arrive(1, "chat", d)
    \/ Arrive(1, "models", NoData)
    \/ \E r \in Requests : \E st \in ErrStatuses : \E dt \in Details :
            RaiseHTTP(r, st, dt)
    \/ \E r \in Requests : \E reply \in Replies : CallReturns(r, reply)
    \/ \E r \in Requests : Step(r)
    \/ Tick

Spec == Init /\ [][Next]_vars

\* The event loop does not stop while something can run.
FairSpec == Spec /\ WF_vars(Next)

\* Requests side by side, with few inputs.
ConcNext ==
    \/ \E r \in Requests : Arrive(r, "chat", [model |-> "m1", messages |-> "hi"])
    \/ \E r \in Requests : Arrive(r, "models", NoData)
    \/ \E r \in Requests : RaiseHTTP(r, 503, "later")
    \/ \E r \in Requests : \E reply \in FewReplies : CallReturns(r, reply)
    \/ \E r \in Requests : Step(r)
    \/ Tick

ConcSpec == Init /\ [][ConcNext]_vars

\* Start-up with every level string of the model, then requests entering.
CfgNext ==
    \/ Lifespan
    \/ \E r \in Requests : \E d \in ChatRequests : Arrive(r, "chat", d)
    \/ \E r \in Requests : Arrive(r, "models", NoData)

CfgSpec == CfgInit /\ [][CfgNext]_vars

(***************************************************************************)
(* Properties.                                                             *)
(***************************************************************************)
Terminal == {"Completed", "TimedOut"}

ClientsOf(r) == { i \in DOMAIN clients : clients[i].owner = r }

\* The backend has kept the handler waiting for longer than the timeout.
SlowBackend(r) == call[r].took > timeout

\* C1: a request whose backend takes longer than the configured timeout T
\* gets exactly one response, no later than T after it entered, and that
\* response is the 504 fallback.
C1_SlowBackendGetsFallbackInTime ==
    \A r \in Requests :
        SlowBackend(r) =>
            /\ Len(delivered[r]) = 1
            /\ delivered[r][1].at <= Deadline(r)
            /\ delivered[r][1].out = Fallback

\* C2: a request starts Running; it ends in exactly one of Completed and
\* TimedOut with exactly one response delivered, a terminal state never
\* changes, and every Running request reaches one.
C2_ExactlyOneTerminal ==
    /\ [](\A r \in Requests :
            /\ guard[r] \in {"Idle", "Running"} \cup Terminal
            /\ guard[r] \in {"Idle", "Running"} => delivered[r] = <<>>
            /\ guard[r] \in Terminal => Len(delivered[r]) = 1
            /\ guard[r] = "TimedOut" => pc[r] = "cancelled"
            /\ guard[r] = "Completed" => pc[r] = "done")
    /\ [][\A r \in Requests :
            /\ guard[r] = "Idle" => guard'[r] \in {"Idle", "Running"}
            /\ guard[r] \in Terminal =>
                    guard'[r] = guard[r] /\ delivered'[r] = delivered[r]]_vars
    /\ \A r \in Requests :
            [](guard[r] = "Running" => <>(guard[r] \in Terminal))

\* A request has ended by its timer although its pipeline had produced a
\* result by then.
C2_Witness ==
    \E r \in Requests :
        /\ guard[r] = "TimedOut"
        /\ result[r] # NoResult
        /\ Len(delivered[r]) = 1

\* C3: a client is open only while the request that built it is inside its
\* backend call; no Completed or TimedOut request owns an open client.
C3_ClientsClosed ==
    /\ \A i \in DOMAIN clients :
            clients[i].open => pc[clients[i].owner] = "calling"
    /\ \A r \in Requests :
            guard[r] \in Terminal => \A i \in ClientsOf(r) : ~clients[i].open

\* A request was cancelled by its timer after its backend call had raised,
\* and the client it built is closed.
C3_Witness ==
    \E r \in Requests :
        /\ guard[r] = "TimedOut"
        /\ result[r].kind = "raise"
        /\ ClientsOf(r) # {}
        /\ \A i \in ClientsOf(r) : ~clients[i].open

\* C4: the response made for an HTTPException of status 403, 408, 503 or 504
\* has that status and the body {"errors": [{"status", "detail"}]}; for any
\* other status it has that status and no "errors" envelope; a request that
\* completes delivers exactly that response.
C4_ErrorEnvelope ==
    \A r \in Requests :
        raised[r] # NoRaise =>
            /\ result[r].kind = "response"
            /\ result[r].status = raised[r].status
            /\ IF raised[r].status \in {403, 408, 503, 504}
               THEN result[r].body =
                        [t |-> "obj",
                         f |-> [errors |-> <<[status |-> raised[r].status,
                                              detail |-> raised[r].detail]>>]]
               ELSE /\ "errors" \notin DOMAIN result[r].body.f
                    /\ result[r].body.f.detail = raised[r].detail
            /\ guard[r] = "Completed" => delivered[r][1].out = result[r]

\* A 408 raised in the pipeline has reached the caller.
C4_Witness ==
    \E r \in Requests :
        /\ raised[r].status = 408
        /\ guard[r] = "Completed"

\* C5: when the backend answered with a non-2xx status, the caller does not
\* get a 200.
C5_Non2xxNever200 ==
    \A r \in Requests :
        (call[r].reply # NoReply /\ call[r].reply.status \notin 200..299) =>
            \A i \in DOMAIN delivered[r] : CallerStatus(delivered[r][i].out) # 200

C7_RoundTrip ==
    \A r \in Requests :
        (route[r] = "chat" /\ sent[r] # <<>>) =>
            /\ sent[r][1].body = [enc |-> [t |-> "obj", f |-> data[r]]]
            /\ (call[r].reply = [status |-> 200, text |-> sent[r][1].body]) =>
                    result[r] = [kind |-> "response", status |-> 200,
                                 body |-> [t |-> "obj", f |-> data[r]]]

\* C8: a request builds at most one client and issues at most one backend
\* call, through its own client; a 200 it returns is built from the reply to
\* its own call.
C8_SingleAttempt ==
    \A r \in Requests :
        /\ Cardinality(ClientsOf(r)) <= 1
        /\ Len(sent[r]) <= 1
        /\ \A k \in DOMAIN sent[r] : sent[r][k].client \in ClientsOf(r)
        /\ (raised[r] = NoRaise /\ result[r].kind = "response") =>
                /\ call[r].state = "returned"
                /\ IsJson(call[r].reply.text)
                /\ result[r].body = Decode(call[r].reply.text)

\* Two requests have ended, each after one call through a client of its
\* own, one of the calls having failed.
C8_Witness ==
    \E r, q \in Requests :
        /\ r # q
        /\ guard[r] \in Terminal /\ guard[q] \in Terminal
        /\ Len(sent[r]) = 1 /\ Len(sent[q]) = 1
        /\ sent[r][1].client # sent[q][1].client
        /\ result[r].kind = "raise"
        /\ result[q].kind = "response"

\* Two strings are equal up to letter case.
SameIgnoringCase(a, b) ==
    /\ Len(a) = Len(b)
    /\ \A i \in DOMAIN a :
            \/ a[i] = b[i]
            \/ \E k \in DOMAIN LowerChars :
                    {a[i], b[i]} = {LowerChars[k], UpperChars[k]}

\* C9: start-up succeeds exactly for the level strings that equal one of
\* CRITICAL, ERROR, WARNING, INFO, DEBUG, NOTSET up to letter case, and then
\* stores that level in capitals; for any other string it fails; a request
\* is only ever handled after a successful start-up.
C9_LevelNormalised ==
    /\ boot # "starting" =>
            IF \E a \in allowed_levels : SameIgnoringCase(levelIn, a)
            THEN /\ boot = "started"
                 /\ level \in allowed_levels
                 /\ SameIgnoringCase(levelIn, level)
            ELSE boot = "failed"
    /\ \A r \in Requests :
            guard[r] # "Idle" => boot = "started" /\ level \in allowed_levels

\* A request is handled after start-up with a level given in lower case.
C9_Witness ==
    /\ levelIn = <<"d", "e", "b", "u", "g">>
    /\ level = <<"D", "E", "B", "U", "G">>
    /\ \E r \in Requests : guard[r] = "Running"

\* What the model holds of request q.
StateOf(q) == <<guard[q], pc[q], call[q], sent[q], raised[q], result[q],
                delivered[q], route[q], entry[q]>>

\* C10: while a request is inside its backend call, no other request takes
\* a step and no timer fires.
C10_BlockingCall ==
    [][\A r \in Requests :
            pc[r] = "calling" =>
                /\ guard' = guard
                /\ delivered' = delivered
                /\ \A q \in Requests \ {r} : StateOf(q)' = StateOf(q)]_vars

\* A request is inside its backend call while another request, whose
\* timeout has elapsed, is still waiting.
C10_Witness ==
    \E r, q \in Requests :
        /\ r # q
        /\ pc[r] = "calling"
        /\ guard[q] = "Running"
        /\ now > Deadline(q)

====
